---- MODULE Spec2Model ----
(***************************************************************************)
(* Model of mod-server-auto-shutdown (src/src/ServerAutoShutdown.cpp).     *)
(*                                                                         *)
(* Three specifications share this module:                                 *)
(*   SpecCalc - the pure function GetNextShutdownTime applied to inputs    *)
(*              drawn from bounded sets;                                   *)
(*   Spec     - the module's handlers ServerAutoShutdown::Init (config     *)
(*              load / reload) and ServerAutoShutdown::OnUpdate (tick)     *)
(*              driving the TaskScheduler and the host (World);            *)
(*   SpecLive - the same handlers with OnUpdate weakly fair, for liveness. *)
(*                                                                         *)
(* Time is in seconds since the Unix epoch.  Local time is modelled as a   *)
(* zone with UTC offset 0 and no daylight saving, so that mktime of a      *)
(* broken-down time is days * DAY + time-of-day.  The calendar date        *)
(* (tm_year, tm_mon, tm_mday) is represented by the day number since the   *)
(* epoch: adding k to tm_mday and normalising with mktime is the date k    *)
(* days later.  OnUpdate's elapsed time is modelled in whole seconds.      *)
(***************************************************************************)
EXTENDS Integers, Sequences, FiniteSets, TLC

(***************************************************************************)
(* Program constants (Common.h of the host).                               *)
(***************************************************************************)
MINUTE == 60
HOUR == 3600
DAY == 86400

(***************************************************************************)
(* Bounds of the model.                                                    *)
(***************************************************************************)
\* SpecCalc: `now` is drawn from NumNowDays consecutive days starting on a Sunday
NumNowDays == 7
\* SpecCalc: restartDays is drawn from 1..MaxRestartDays
MaxRestartDays == 3
\* Spec: at most MaxInits calls of Init and MaxTicks calls of OnUpdate
MaxInits == 3
MaxTicks == 2

\* 2023-01-01 00:00:00 UTC, a Sunday (day number 19358 since the epoch)
BaseEpoch == 19358 * DAY

VARIABLES
    \* ---- SpecCalc: one call of GetNextShutdownTime
    calcArgs,          \* the arguments of the call
    calcRet,           \* the returned instant (0 before the call returns)
    calcPc,            \* "idle" | "ready" | "done"
    \* ---- Spec: the module and its collaborators
    now,               \* wall clock, time(nullptr)
    isEnableModule,    \* ServerAutoShutdown::_isEnableModule
    schedNow,          \* TaskScheduler::_now, in seconds since construction
    tasks,             \* TaskScheduler's pending tasks
    shutdownTimer,     \* World: the host's pending shutdown request
    log,               \* host effects of fired tasks, in order
    initCount,         \* number of Init calls so far
    tickCount,         \* number of OnUpdate calls so far
    last               \* what the most recent Init call saw and computed

vars == <<calcArgs, calcRet, calcPc, now, isEnableModule, schedNow, tasks,
          shutdownTimer, log, initCount, tickCount, last>>

(***************************************************************************)
(* Calendar helpers: Acore::Time::TimeBreakdown (localtime) and mktime.    *)
(***************************************************************************)
\* weekday of a day number; 1970-01-01 was a Thursday (Sunday=0 ... Saturday=6)
WeekdayOf(dayNumber) == (dayNumber + 4) % 7

TimeBreakdown(timestamp) ==
    [tm_mday |-> timestamp \div DAY,
     tm_wday |-> WeekdayOf(timestamp \div DAY),
     tm_hour |-> (timestamp % DAY) \div HOUR,
     tm_min  |-> (timestamp % HOUR) \div MINUTE,
     tm_sec  |-> timestamp % MINUTE]

\* the instant mktime returns for a (possibly denormalised) broken-down time
mktime(timeLocal) ==
    timeLocal.tm_mday * DAY + timeLocal.tm_hour * HOUR
        + timeLocal.tm_min * MINUTE + timeLocal.tm_sec

\* mktime also rewrites its argument in normal form, tm_wday included
Normalized(timeLocal) == TimeBreakdown(mktime(timeLocal))

\* weekdayMask & (1 << bit)
BitSet(weekdayMask, bit) == (weekdayMask \div (2 ^ bit)) % 2 = 1

(***************************************************************************)
(* GetNextShutdownTime, lines 31-58.                                       *)
(***************************************************************************)
\* a fallback that lands two weeks ahead instead of one
RECURSIVE WeekdayLoopTwoWeeks(_, _, _, _)
WeekdayLoopTwoWeeks(weekdayIndex, timeLocal, timestamp, weekdayMask) ==
    IF weekdayIndex >= 7
    THEN mktime([timeLocal EXCEPT !.tm_mday = @ + 14])
    ELSE IF BitSet(weekdayMask, (timeLocal.tm_wday + weekdayIndex) % 7)
         THEN LET added == [timeLocal EXCEPT !.tm_mday = @ + weekdayIndex]
                  ShutdownMaskTime == mktime(added)
              IN  IF ShutdownMaskTime - 10 > timestamp
                  THEN ShutdownMaskTime
                  ELSE WeekdayLoopTwoWeeks(weekdayIndex + 1, Normalized(added),
                                           timestamp, weekdayMask)
         ELSE WeekdayLoopTwoWeeks(weekdayIndex + 1, timeLocal, timestamp, weekdayMask)

\* mktime leaving tm_wday as it was: the weekday test goes on from the original day
RECURSIVE WeekdayLoopStaleWday(_, _, _, _)
WeekdayLoopStaleWday(weekdayIndex, timeLocal, timestamp, weekdayMask) ==
    IF weekdayIndex >= 7
    THEN mktime([timeLocal EXCEPT !.tm_mday = @ + 7])
    ELSE IF BitSet(weekdayMask, (timeLocal.tm_wday + weekdayIndex) % 7)
         THEN LET added == [timeLocal EXCEPT !.tm_mday = @ + weekdayIndex]
                  ShutdownMaskTime == mktime(added)
              IN  IF ShutdownMaskTime - 10 > timestamp
                  THEN ShutdownMaskTime
                  ELSE WeekdayLoopStaleWday(weekdayIndex + 1, added, timestamp, weekdayMask)
         ELSE WeekdayLoopStaleWday(weekdayIndex + 1, timeLocal, timestamp, weekdayMask)

\* the guard of line 46 without the 10-second margin
RECURSIVE WeekdayLoopNoMargin(_, _, _, _)
WeekdayLoopNoMargin(weekdayIndex, timeLocal, timestamp, weekdayMask) ==
    IF weekdayIndex >= 7
    THEN mktime([timeLocal EXCEPT !.tm_mday = @ + 7])
    ELSE IF BitSet(weekdayMask, (timeLocal.tm_wday + weekdayIndex) % 7)
         THEN LET added == [timeLocal EXCEPT !.tm_mday = @ + weekdayIndex]
                  ShutdownMaskTime == mktime(added)
              IN  IF ShutdownMaskTime > timestamp
                  THEN ShutdownMaskTime
                  ELSE WeekdayLoopNoMargin(weekdayIndex + 1, Normalized(added),
                                           timestamp, weekdayMask)
         ELSE WeekdayLoopNoMargin(weekdayIndex + 1, timeLocal, timestamp, weekdayMask)

\* the for loop of lines 40-49 from index weekdayIndex on, then lines 50-51.
\* timeLocal is the loop's mutable struct: a hit adds weekdayIndex to tm_mday
\* and mktime renormalises it in place (tm_wday included) before the guard.
RECURSIVE WeekdayLoop(_, _, _, _)
WeekdayLoop(weekdayIndex, timeLocal, timestamp, weekdayMask) ==
    IF weekdayIndex >= 7
    THEN mktime([timeLocal EXCEPT !.tm_mday = @ + 7])
    ELSE IF BitSet(weekdayMask, (timeLocal.tm_wday + weekdayIndex) % 7)
         THEN LET added == [timeLocal EXCEPT !.tm_mday = @ + weekdayIndex]
                  ShutdownMaskTime == mktime(added)
              IN  IF ShutdownMaskTime - 10 > timestamp
                  THEN ShutdownMaskTime
                  ELSE WeekdayLoop(weekdayIndex + 1, Normalized(added),
                                   timestamp, weekdayMask)
         ELSE WeekdayLoop(weekdayIndex + 1, timeLocal, timestamp, weekdayMask)

\* the guard of line 55 with < in place of <=
IntervalModeStrict(timestamp, ShutdownDaysTime, restartDays) ==
    IF restartDays > 1 \/ ShutdownDaysTime - 10 < timestamp
    THEN ShutdownDaysTime + DAY * restartDays
    ELSE ShutdownDaysTime

\* line 56 advancing by one day whatever restartDays is
IntervalModeOneDay(timestamp, ShutdownDaysTime, restartDays) ==
    IF restartDays > 1 \/ ShutdownDaysTime - 10 <= timestamp
    THEN ShutdownDaysTime + DAY
    ELSE ShutdownDaysTime

\* the guard of line 55 with the comparison turned around
IntervalModeInverted(timestamp, ShutdownDaysTime, restartDays) ==
    IF restartDays > 1 \/ ShutdownDaysTime - 10 >= timestamp
    THEN ShutdownDaysTime + DAY * restartDays
    ELSE ShutdownDaysTime

\* lines 54-57
IntervalMode(timestamp, ShutdownDaysTime, restartDays) ==
    IF restartDays > 1 \/ ShutdownDaysTime - 10 <= timestamp
    THEN ShutdownDaysTime + DAY * restartDays
    ELSE ShutdownDaysTime

GetNextShutdownTime(timestamp, weekdayMask, restartDays, restartHour, restartMinute, restartSecond) ==
    LET timeLocal == [TimeBreakdown(timestamp) EXCEPT
                          !.tm_hour = restartHour,
                          !.tm_min = restartMinute,
                          !.tm_sec = restartSecond]
    IN  IF weekdayMask # 0
        THEN WeekdayLoop(0, timeLocal, timestamp, weekdayMask)
        ELSE IntervalMode(timestamp, mktime(timeLocal), restartDays)

(***************************************************************************)
(* SpecCalc: GetNextShutdownTime on bounded inputs.                        *)
(***************************************************************************)
\* times of day of `now`: around the 10-second guard of 04:00:00 and of midnight
CalcNowTods == {0, 3 * HOUR, 4 * HOUR - 11, 4 * HOUR - 10, 4 * HOUR - 5,
                5 * HOUR, 10 * HOUR, DAY - 11, DAY - 10, DAY - 5}
\* target times of day <<hour, minute, second>>
CalcTargets == {<<0, 0, 0>>, <<4, 0, 0>>, <<23, 59, 59>>}

CalcArgSet ==
    [timestamp : {BaseEpoch + d * DAY + t : d \in 0 .. (NumNowDays - 1), t \in CalcNowTods},
     weekdayMask : 1 .. 127,
     restartDays : {1},
     target : CalcTargets]
    \cup
    [timestamp : {BaseEpoch + d * DAY + t : d \in 0 .. (NumNowDays - 1), t \in CalcNowTods},
     weekdayMask : {0},
     restartDays : 1 .. MaxRestartDays,
     target : CalcTargets]

NoArgs == [timestamp |-> 0, weekdayMask |-> 0, restartDays |-> 0, target |-> <<0, 0, 0>>]

(***************************************************************************)
(* Configuration values and their validation (Init, lines 69-126).         *)
(* The option ServerAutoShutdown.Time is represented by the tokens that    *)
(* Acore::Tokenize(configTime, ':', false) yields for it; a token is       *)
(* either a decimal numeral, represented by its value, or other text.      *)
(***************************************************************************)
Numeral(n) == [numeric |-> TRUE, value |-> n]
OtherText == [numeric |-> FALSE, value |-> 0]

\* Acore::StringTo<uint8>: a value only for a numeral that fits 8 bits
StringToUint8(token) ==
    IF token.numeric /\ token.value <= 255
    THEN [has |-> TRUE, val |-> token.value]
    ELSE [has |-> FALSE, val |-> 0]

\* the lambda of lines 88-94 applied to {0, 1, 2}
CheckTime(tokens) == \A itr \in 1 .. 3 : StringToUint8(tokens[itr]).has

\* validation without the weekday mask check of lines 107-112
ConfigAcceptedAnyMask(cfg) ==
    LET tokens == cfg.configTime
    IN  /\ cfg.enabled
        /\ Len(tokens) = 3
        /\ CheckTime(tokens)
        /\ ~(cfg.restartDays < 1 \/ cfg.restartDays > 365)
        /\ ~(\/ StringToUint8(tokens[1]).val > 23
             \/ StringToUint8(tokens[2]).val > 59
             \/ StringToUint8(tokens[3]).val > 59)

\* Init reaches line 128: the module is enabled and no check of lines 80-126 fails
ConfigAccepted(cfg) ==
    LET tokens == cfg.configTime
    IN  /\ cfg.enabled
        /\ Len(tokens) = 3
        /\ CheckTime(tokens)
        /\ ~(cfg.weekdayMask > 127)
        /\ ~(cfg.restartDays < 1 \/ cfg.restartDays > 365)
        /\ ~(\/ StringToUint8(tokens[1]).val > 23
             \/ StringToUint8(tokens[2]).val > 59
             \/ StringToUint8(tokens[3]).val > 59)

\* restartHour, restartMinute, restartSecond of lines 103-105
RestartTime(cfg) ==
    LET tokens == cfg.configTime
    IN  << StringToUint8(tokens[1]).val, StringToUint8(tokens[2]).val,
           StringToUint8(tokens[3]).val >>

\* the correction of lines 128-132 applied from one day on
CorrectedPreAnnounceFromDay(preAnnounceSeconds) ==
    IF preAnnounceSeconds >= DAY THEN HOUR ELSE preAnnounceSeconds

\* lines 128-132
CorrectedPreAnnounce(preAnnounceSeconds) ==
    IF preAnnounceSeconds > DAY THEN HOUR ELSE preAnnounceSeconds

(***************************************************************************)
(* uint32 arithmetic of lines 136-160.  Every operand of the model is      *)
(* below 2^31, so a difference is either its own value or wraps around.    *)
(***************************************************************************)
U32(x) == IF x >= 0 THEN x ELSE x + 65536 * 65536

\* the clamp of lines 155-160 keeping the configured lead as the duration
EffectiveLeadConfigured(diffToShutdown, preAnnounceSeconds) == preAnnounceSeconds

\* preAnnounceSeconds as captured by the task (lines 155-160, 169)
EffectiveLead(diffToShutdown, preAnnounceSeconds) ==
    IF diffToShutdown < preAnnounceSeconds THEN diffToShutdown ELSE preAnnounceSeconds

\* the clamp of line 158 assigning the lead instead of 1
DiffToPreAnnounceLead(nextResetTime, nowTime, diffToShutdown, preAnnounceSeconds) ==
    IF diffToShutdown < preAnnounceSeconds
    THEN preAnnounceSeconds
    ELSE U32(U32(nextResetTime - preAnnounceSeconds) - nowTime)

\* diffToPreAnnounce, the delay given to scheduler.Schedule (lines 151-160)
DiffToPreAnnounce(nextResetTime, nowTime, diffToShutdown, preAnnounceSeconds) ==
    LET timeToPreAnnounce == U32(nextResetTime - preAnnounceSeconds)
        diffToPreAnnounce == U32(timeToPreAnnounce - nowTime)
    IN  IF diffToShutdown < preAnnounceSeconds THEN 1 ELSE diffToPreAnnounce

\* timeToPreAnnounce, the logged announce instant (lines 151, 157)
TimeToPreAnnounce(nextResetTime, nowTime, diffToShutdown, preAnnounceSeconds) ==
    IF diffToShutdown < preAnnounceSeconds
    THEN U32(nowTime + 1)
    ELSE U32(nextResetTime - preAnnounceSeconds)

(***************************************************************************)
(* TaskScheduler (scheduler, line 29) and the host (sWorld).               *)
(***************************************************************************)
\* CancelAll leaving the queue as it is
CancelAllKeep(pending) == pending

\* TaskScheduler::CancelAll
CancelAll(pending) == {}

\* a scheduler that makes every task due at once
ScheduleNow(pending, clock, delay, task) ==
    pending \cup {[task EXCEPT !.end = clock]}

\* TaskScheduler::Schedule(Seconds(delay), task): due at _now + delay
Schedule(pending, clock, delay, task) ==
    pending \cup {[task EXCEPT !.end = clock + delay]}

\* World::ShutdownCancel
ShutdownCancel == [active |-> FALSE, time |-> 0, options |-> "none", gen |-> 0]

\* World::ShutdownServ(time, SHUTDOWN_MASK_RESTART, SHUTDOWN_EXIT_CODE)
ShutdownServ(time, gen) ==
    [active |-> TRUE, time |-> time, options |-> "SHUTDOWN_MASK_RESTART", gen |-> gen]

\* the task to run first: smallest end, ties in order of scheduling
FirstDue(due) ==
    CHOOSE t \in due : \A u \in due :
        \/ t.end < u.end
        \/ (t.end = u.end /\ t.gen <= u.gen)

\* the lambda of lines 169-176 with the host request issued before the broadcast
RECURSIVE DispatchShutdownFirst(_, _, _, _)
DispatchShutdownFirst(due, lg, host, cur) ==
    IF due = {} THEN [log |-> lg, host |-> host]
    ELSE LET t == FirstDue(due)
         IN  DispatchShutdownFirst(due \ {t},
                      lg \o << [kind |-> "shutdown", secs |-> t.preAnnounceSeconds,
                                gen |-> t.gen, cur |-> cur],
                               [kind |-> "broadcast", secs |-> t.preAnnounceSeconds,
                                gen |-> t.gen, cur |-> cur] >>,
                      ShutdownServ(t.preAnnounceSeconds, t.gen),
                      cur)

\* the lambda of lines 169-176 ending after the broadcast
RECURSIVE DispatchBroadcastOnly(_, _, _, _)
DispatchBroadcastOnly(due, lg, host, cur) ==
    IF due = {} THEN [log |-> lg, host |-> host]
    ELSE LET t == FirstDue(due)
         IN  DispatchBroadcastOnly(due \ {t},
                      lg \o << [kind |-> "broadcast", secs |-> t.preAnnounceSeconds,
                                gen |-> t.gen, cur |-> cur] >>,
                      host,
                      cur)

\* TaskScheduler::Dispatch: runs the lambda of lines 169-176 for every due task
RECURSIVE Dispatch(_, _, _, _)
Dispatch(due, lg, host, cur) ==
    IF due = {} THEN [log |-> lg, host |-> host]
    ELSE LET t == FirstDue(due)
         IN  Dispatch(due \ {t},
                      lg \o << [kind |-> "broadcast", secs |-> t.preAnnounceSeconds,
                                gen |-> t.gen, cur |-> cur],
                               [kind |-> "shutdown", secs |-> t.preAnnounceSeconds,
                                gen |-> t.gen, cur |-> cur] >>,
                      ShutdownServ(t.preAnnounceSeconds, t.gen),
                      cur)

(***************************************************************************)
(* Spec: inputs.                                                           *)
(***************************************************************************)
Time040000 == <<Numeral(4), Numeral(0), Numeral(0)>>      \* "04:00:00"
Time0400 == <<Numeral(4), Numeral(0)>>                    \* "04:00"
Time04xx00 == <<Numeral(4), OtherText, Numeral(0)>>       \* "04:xx:00"
Time300 == <<Numeral(300), Numeral(0), Numeral(0)>>       \* "300:00:00"
Time240000 == <<Numeral(24), Numeral(0), Numeral(0)>>     \* "24:00:00"
Time046000 == <<Numeral(4), Numeral(60), Numeral(0)>>     \* "04:60:00"
Time040060 == <<Numeral(4), Numeral(0), Numeral(60)>>     \* "04:00:60"

DefaultCfg == [enabled |-> TRUE, weekdayMask |-> 0, restartDays |-> 1,
               configTime |-> Time040000, preAnnounceSeconds |-> HOUR]

\* configurations that pass validation
GoodCfgs == {[DefaultCfg EXCEPT !.preAnnounceSeconds = lead] :
                lead \in {0, HOUR, DAY, DAY + 1}}
            \cup {[DefaultCfg EXCEPT !.restartDays = 2],
                  [DefaultCfg EXCEPT !.weekdayMask = 2, !.preAnnounceSeconds = 2 * HOUR]}

\* the default configuration with one option changed so that Init stops early
BadCfgs == {[DefaultCfg EXCEPT !.enabled = FALSE],
            [DefaultCfg EXCEPT !.weekdayMask = 128],
            [DefaultCfg EXCEPT !.restartDays = 0],
            [DefaultCfg EXCEPT !.restartDays = 366]}
           \cup {[DefaultCfg EXCEPT !.configTime = t] :
                    t \in {Time0400, Time04xx00, Time300, Time240000,
                          Time046000, Time040060}}

Configs == GoodCfgs \cup BadCfgs

\* wall-clock instants at construction: Monday 2023-01-02 at 03:00:00 and 03:30:00
StartNows == {BaseEpoch + DAY + 3 * HOUR, BaseEpoch + DAY + 3 * HOUR + 30 * MINUTE}

\* elapsed seconds passed to OnUpdate
Diffs == {1, HOUR}

NoLast == [ok |-> FALSE, cfg |-> [DefaultCfg EXCEPT !.enabled = FALSE],
           nowTime |-> 0, tick |-> 0, repeat |-> FALSE, nextResetTime |-> 0,
           diffToShutdown |-> 0, preAnnounceSeconds |-> 0, diffToPreAnnounce |-> 0,
           timeToPreAnnounce |-> 0]

ModuleIdle ==
    /\ now = 0
    /\ isEnableModule = FALSE
    /\ schedNow = 0
    /\ tasks = {}
    /\ shutdownTimer = ShutdownCancel
    /\ log = <<>>
    /\ initCount = 0
    /\ tickCount = 0
    /\ last = NoLast

InitCalc ==
    /\ calcArgs \in CalcArgSet
    /\ calcRet = 0
    /\ calcPc = "ready"
    /\ ModuleIdle

CallGetNextShutdownTime ==
    /\ calcPc = "ready"
    /\ calcRet' = GetNextShutdownTime(calcArgs.timestamp, calcArgs.weekdayMask,
                                      calcArgs.restartDays, calcArgs.target[1],
                                      calcArgs.target[2], calcArgs.target[3])
    /\ calcPc' = "done"
    /\ UNCHANGED <<calcArgs, now, isEnableModule, schedNow, tasks, shutdownTimer,
                   log, initCount, tickCount, last>>

NextCalc == CallGetNextShutdownTime

SpecCalc == InitCalc /\ [][NextCalc]_vars

(***************************************************************************)
(* Spec: the module's handlers.                                            *)
(***************************************************************************)
CalcIdle ==
    /\ calcArgs = NoArgs
    /\ calcRet = 0
    /\ calcPc = "idle"

\* the state after construction: module not yet loaded, scheduler empty
Init ==
    /\ CalcIdle
    /\ now \in StartNows
    /\ isEnableModule = FALSE
    /\ schedNow = 0
    /\ tasks = {}
    /\ shutdownTimer = ShutdownCancel
    /\ log = <<>>
    /\ initCount = 0
    /\ tickCount = 0
    /\ last = NoLast

\* this call repeats the previous one: same options, same time(nullptr), no
\* OnUpdate in between
Repeats(cfg) ==
    /\ initCount > 0
    /\ last.cfg = cfg
    /\ last.nowTime = now
    /\ last.tick = tickCount

\* ServerAutoShutdown::Init stopping at one of the returns of lines 71-126:
\* only _isEnableModule is written
InitRejected(cfg) ==
    /\ isEnableModule' = FALSE
    /\ last' = [NoLast EXCEPT !.cfg = cfg, !.nowTime = now, !.tick = tickCount,
                              !.repeat = Repeats(cfg)]
    /\ UNCHANGED <<schedNow, tasks, shutdownTimer>>

\* ServerAutoShutdown::Init running to line 177.  StartPersistentGameEvents
\* (line 166) only talks to the game event manager, which is not modelled.
InitAccepted(cfg) ==
    /\ LET restartHour == RestartTime(cfg)[1]
           restartMinute == RestartTime(cfg)[2]
           restartSecond == RestartTime(cfg)[3]
           preAnnounceSeconds == CorrectedPreAnnounce(cfg.preAnnounceSeconds)
           nowTime == now
           nextResetTime == GetNextShutdownTime(nowTime, cfg.weekdayMask, cfg.restartDays,
                                                restartHour, restartMinute, restartSecond)
           diffToShutdown == U32(nextResetTime - U32(nowTime))
           diffToPreAnnounce == DiffToPreAnnounce(nextResetTime, nowTime,
                                                  diffToShutdown, preAnnounceSeconds)
           timeToPreAnnounce == TimeToPreAnnounce(nextResetTime, nowTime,
                                                  diffToShutdown, preAnnounceSeconds)
           captured == EffectiveLead(diffToShutdown, preAnnounceSeconds)
           task == [end |-> 0,
                    preAnnounceSeconds |-> captured,
                    gen |-> initCount + 1,
                    fireAt |-> nowTime + diffToPreAnnounce,
                    nextResetTime |-> nextResetTime]
       IN  /\ isEnableModule' = TRUE
           /\ tasks' = Schedule(CancelAll(tasks), schedNow, diffToPreAnnounce, task)
           /\ shutdownTimer' = ShutdownCancel
           /\ last' = [ok |-> TRUE, cfg |-> cfg, nowTime |-> nowTime,
                       tick |-> tickCount, repeat |-> Repeats(cfg),
                       nextResetTime |-> nextResetTime,
                       diffToShutdown |-> diffToShutdown,
                       preAnnounceSeconds |-> captured,
                       diffToPreAnnounce |-> diffToPreAnnounce,
                       timeToPreAnnounce |-> timeToPreAnnounce]
    /\ UNCHANGED schedNow

\* ServerAutoShutdown::Init, called at startup and on every config reload
ServerAutoShutdownInit(cfg) ==
    /\ initCount < MaxInits
    /\ initCount' = initCount + 1
    /\ IF ConfigAccepted(cfg) THEN InitAccepted(cfg) ELSE InitRejected(cfg)
    /\ UNCHANGED <<now, log, tickCount, calcArgs, calcRet, calcPc>>

\* ServerAutoShutdown::OnUpdate(diff); the wall clock moves on by diff as well
OnUpdateCall(diff) ==
    /\ tickCount' = tickCount + 1
    /\ now' = now + diff
    /\ IF ~isEnableModule
       THEN UNCHANGED <<schedNow, tasks, shutdownTimer, log>>
       ELSE LET clock == schedNow + diff
                due == {t \in tasks : t.end <= clock}
                ran == Dispatch(due, log, shutdownTimer, initCount)
            IN  /\ schedNow' = clock
                /\ tasks' = tasks \ due
                /\ log' = ran.log
                /\ shutdownTimer' = ran.host
    /\ UNCHANGED <<isEnableModule, initCount, last, calcArgs, calcRet, calcPc>>

\* Spec explores at most MaxTicks calls of OnUpdate
OnUpdate(diff) ==
    /\ tickCount < MaxTicks
    /\ OnUpdateCall(diff)

Next ==
    \/ \E cfg \in Configs : ServerAutoShutdownInit(cfg)
    \/ \E diff \in Diffs : OnUpdate(diff)

Spec == Init /\ [][Next]_vars

(***************************************************************************)
(* SpecLive: the handlers under the host's scheduling.  The world loop     *)
(* calls OnUpdate on every iteration for as long as the process runs, so   *)
(* OnUpdate is weakly fair.  Reloads happen during the first MaxTicks      *)
(* calls of OnUpdate; after that OnUpdate is followed for as long as it    *)
(* can still have an effect, i.e. while the module is enabled with a task  *)
(* pending.                                                                *)
(***************************************************************************)
LiveConfigs == {DefaultCfg,
                [DefaultCfg EXCEPT !.preAnnounceSeconds = 0],
                [DefaultCfg EXCEPT !.enabled = FALSE]}

LiveDiffs == {30 * MINUTE, HOUR}

LiveInit(cfg) ==
    /\ tickCount < MaxTicks
    /\ ServerAutoShutdownInit(cfg)

LiveOnUpdate(diff) ==
    /\ tickCount < MaxTicks \/ (isEnableModule /\ tasks # {})
    /\ OnUpdateCall(diff)

LiveNext ==
    \/ \E cfg \in LiveConfigs : LiveInit(cfg)
    \/ \E diff \in LiveDiffs : LiveOnUpdate(diff)

SpecLive ==
    /\ Init
    /\ [][LiveNext]_vars
    /\ WF_vars(\E diff \in LiveDiffs : LiveOnUpdate(diff))


(***************************************************************************)
(* Properties of GetNextShutdownTime, checked under SpecCalc.              *)
(***************************************************************************)
CalcDone == calcPc = "done"
CalcToday == calcArgs.timestamp \div DAY
CalcTargetTod == calcArgs.target[1] * HOUR + calcArgs.target[2] * MINUTE + calcArgs.target[3]
\* the target time of day on the day k days after today
TargetOn(k) == (CalcToday + k) * DAY + CalcTargetTod
\* day today + k is in the mask and its target instant passes the 10-second guard
Qualifies(k) ==
    /\ BitSet(calcArgs.weekdayMask, WeekdayOf(CalcToday + k))
    /\ TargetOn(k) - 10 > calcArgs.timestamp
EarliestOffset == CHOOSE k \in 0 .. 14 : Qualifies(k) /\ \A j \in 0 .. (k - 1) : ~Qualifies(j)
SingleBitMasks == {1, 2, 4, 8, 16, 32, 64}
\* today's target if it is more than 10 seconds ahead, tomorrow's otherwise
NaiveCandidate == IF TargetOn(0) - 10 > calcArgs.timestamp THEN TargetOn(0) ELSE TargetOn(1)

\* C1: in weekday-mask mode the result is the target time of day on the earliest
\* day at offset k >= 0 from today whose bit is set and whose instant is more
\* than 10 seconds after now; no qualifying set-bit day is skipped.
C1_EarliestQualifyingDay ==
    (CalcDone /\ calcArgs.weekdayMask # 0) => calcRet = TargetOn(EarliestOffset)

\* C2 as stated: with exactly one bit set the result is at most 7 days after
\* now and its time of day is the target.
C2_SingleBitWithinSevenDays ==
    (CalcDone /\ calcArgs.weekdayMask \in SingleBitMasks) =>
        /\ calcRet <= calcArgs.timestamp + 7 * DAY
        /\ calcRet % DAY = CalcTargetTod

\* C2 amended: with exactly one bit set the result is at most 7 days and 10
\* seconds after now (the guard can push the week-later instant past 7 days)
\* and its time of day is the target.
C2_SingleBitWithinSevenDaysAndGuard ==
    (CalcDone /\ calcArgs.weekdayMask \in SingleBitMasks) =>
        /\ calcRet <= calcArgs.timestamp + 7 * DAY + 10
        /\ calcRet % DAY = CalcTargetTod

\* a single-bit mask whose result lies more than 7 days after now
C2_Witness ==
    /\ CalcDone
    /\ calcArgs.weekdayMask \in SingleBitMasks
    /\ calcRet > calcArgs.timestamp + 7 * DAY

\* C3: interval mode with restartDays = 1 returns today's target instant when
\* it is more than 10 seconds ahead of now, and tomorrow's otherwise.
C3_DailyIntervalTodayOrTomorrow ==
    (CalcDone /\ calcArgs.weekdayMask = 0 /\ calcArgs.restartDays = 1) =>
        calcRet = IF TargetOn(0) - 10 > calcArgs.timestamp THEN TargetOn(0) ELSE TargetOn(1)

\* now is exactly 10 seconds before today's target: tomorrow's is returned
C3_Witness ==
    /\ CalcDone
    /\ calcArgs.weekdayMask = 0
    /\ calcArgs.restartDays = 1
    /\ TargetOn(0) - 10 = calcArgs.timestamp
    /\ calcRet = TargetOn(1)

\* C4 as stated: interval mode with restartDays = N > 1 returns an instant at
\* least N full days after the naive candidate.
C4_AtLeastNDaysAfterNaive ==
    (CalcDone /\ calcArgs.weekdayMask = 0 /\ calcArgs.restartDays > 1) =>
        calcRet >= NaiveCandidate + calcArgs.restartDays * DAY

\* C4 amended: interval mode with restartDays = N > 1 returns today's target
\* instant plus exactly N days: N full days after the naive candidate when
\* today's target is still more than 10 seconds ahead, N - 1 full days after
\* it (the naive candidate being tomorrow's target) otherwise.
C4_NDaysAfterTodaysTarget ==
    (CalcDone /\ calcArgs.weekdayMask = 0 /\ calcArgs.restartDays > 1) =>
        /\ calcRet = TargetOn(calcArgs.restartDays)
        /\ calcRet = NaiveCandidate + (IF TargetOn(0) - 10 > calcArgs.timestamp
                                        THEN calcArgs.restartDays
                                        ELSE calcArgs.restartDays - 1) * DAY

\* restartDays > 1 with today's target already passed
C4_Witness ==
    /\ CalcDone
    /\ calcArgs.weekdayMask = 0
    /\ calcArgs.restartDays > 1
    /\ TargetOn(0) <= calcArgs.timestamp
    /\ calcRet = NaiveCandidate + (calcArgs.restartDays - 1) * DAY

(***************************************************************************)
(* Properties of Init and OnUpdate, checked under Spec.                    *)
(***************************************************************************)
\* the lead after the correction of lines 128-132, from the configured option
LastLead ==
    IF last.cfg.preAnnounceSeconds > DAY THEN HOUR ELSE last.cfg.preAnnounceSeconds
\* secondsToShutdown of the most recent Init
LastSecondsToShutdown == last.nextResetTime - last.nowTime
\* the pending tasks enqueued by the most recent Init call
CurrentTasks == {t \in tasks : t.gen = initCount}
\* the effects of tasks enqueued by the most recent Init call
CurrentEffects == {i \in DOMAIN log : log[i].gen = initCount}

\* C5: when the corrected lead exceeds secondsToShutdown the announce task is
\* due at now + 1 and its duration (message and shutdown request) is
\* nextShutdown - now; otherwise it is due secondsToShutdown - lead seconds
\* after now and its duration is the lead.
C5_ClampedAnnounce ==
    last.ok =>
        LET delay == IF LastLead > LastSecondsToShutdown
                     THEN 1 ELSE LastSecondsToShutdown - LastLead
            duration == IF LastLead > LastSecondsToShutdown
                        THEN LastSecondsToShutdown ELSE LastLead
        IN  /\ last.diffToPreAnnounce = delay
            /\ \A t \in CurrentTasks :
                  /\ t.fireAt = last.nowTime + delay
                  /\ t.end - delay + (now - last.nowTime) = schedNow
                  /\ t.preAnnounceSeconds = duration
            /\ \A i \in CurrentEffects : log[i].secs = duration

\* lead 7200 with 1800 seconds left: the pending task is due in 1 second and
\* carries 1800 seconds
C5_Witness ==
    /\ last.ok
    /\ last.cfg.preAnnounceSeconds = 2 * HOUR
    /\ LastSecondsToShutdown = 30 * MINUTE
    /\ \E t \in CurrentTasks :
          t.fireAt = last.nowTime + 1 /\ t.preAnnounceSeconds = 30 * MINUTE

\* C6: for every pending announce task, the instant it is due plus the grace
\* period it passes to the host equals nextShutdown, clamped or not.
C6_CountdownEndsAtNextShutdown ==
    \A t \in tasks : t.fireAt + t.preAnnounceSeconds = t.nextResetTime

\* C7: every broadcast and shutdown request that occurs comes from a task
\* enqueued by the most recent Init call at the time it fires.
C7_OnlyLatestInitFires ==
    \A i \in DOMAIN log : log[i].gen = log[i].cur

\* a task fired after at least one reload
C7_Witness ==
    /\ initCount >= 2
    /\ log # <<>>
    /\ log[Len(log)].kind = "shutdown"
    /\ log[Len(log)].gen = initCount

\* the scheduler and host state, without the bookkeeping of which call
\* enqueued a task
TaskView(t) == [end |-> t.end, preAnnounceSeconds |-> t.preAnnounceSeconds,
                fireAt |-> t.fireAt, nextResetTime |-> t.nextResetTime]
SchedulerView ==
    <<isEnableModule, schedNow, {TaskView(t) : t \in tasks}, Cardinality(tasks),
      shutdownTimer, log>>

\* C8: an Init call that repeats the previous one (same options, same now, no
\* OnUpdate in between) leaves the scheduler as the previous call left it:
\* same announce and shutdown instants, no duplicate, no orphaned task.
C8_InitIdempotent ==
    [][(initCount' = initCount + 1 /\ last'.repeat) => SchedulerView' = SchedulerView]_vars

\* a successful Init repeated: one task pending
C8_Witness ==
    /\ last.ok
    /\ last.repeat
    /\ Cardinality(tasks) = 1

\* C9: at most two tasks are pending, and a pending announce task is due no
\* later than the shutdown instant of its cycle.
C9_PendingTasksBounded ==
    /\ Cardinality(tasks) <= 2
    /\ \A t \in tasks : t.fireAt <= t.nextResetTime

\* after a reload and a tick, a clamped task is pending, due before nextShutdown
C9_Witness ==
    /\ initCount >= 2
    /\ tickCount >= 1
    /\ \E t \in tasks : t.fireAt = last.nowTime + 1 /\ t.fireAt < t.nextResetTime

\* C10: after any Init returns, no pending task was enqueued by an earlier Init.
C10_InitCancelsEarlierTasks ==
    \A t \in tasks : t.gen = initCount

(***************************************************************************)
(* Further properties of GetNextShutdownTime, checked under SpecCalc.      *)
(***************************************************************************)
\* no day at offset 0..6 is in the mask with its target more than 10 s ahead
NoneQualifiesThisWeek == \A k \in 0 .. 6 : ~Qualifies(k)
\* offset of the first day at or after today whose bit is set
FirstSetOffset ==
    CHOOSE k \in 0 .. 6 :
        /\ BitSet(calcArgs.weekdayMask, WeekdayOf(CalcToday + k))
        /\ \A j \in 0 .. (k - 1) : ~BitSet(calcArgs.weekdayMask, WeekdayOf(CalcToday + j))

\* C15 as stated: when no offset in 0..6 qualifies, the result is exactly 7
\* days after the original candidate, today's date at the target time of day.
C15_FallbackFromOriginalCandidate ==
    (CalcDone /\ calcArgs.weekdayMask # 0 /\ NoneQualifiesThisWeek) =>
        calcRet = TargetOn(7)

\* C15 amended: when no offset in 0..6 qualifies, the result is exactly 7 days
\* after the target instant of the first set-bit day at or after today: one
\* week after today's target when today's bit is set, one week after the
\* rejected later day's target otherwise.
C15_FallbackFromFirstSetBitDay ==
    (CalcDone /\ calcArgs.weekdayMask # 0 /\ NoneQualifiesThisWeek) =>
        calcRet = TargetOn(FirstSetOffset + 7)

\* only tomorrow's bit is set and tomorrow's target is within the guard: the
\* result is a week after tomorrow
C15_Witness ==
    /\ CalcDone
    /\ calcArgs.weekdayMask \in SingleBitMasks
    /\ NoneQualifiesThisWeek
    /\ FirstSetOffset = 1
    /\ calcRet = TargetOn(8)

\* C18: in either mode the result is strictly after now, so nextResetTime -
\* now is at least 1 and the uint32 subtraction does not wrap.
C18_ResultAfterNow ==
    CalcDone =>
        /\ calcRet > calcArgs.timestamp
        /\ U32(calcRet - U32(calcArgs.timestamp)) = calcRet - calcArgs.timestamp
        /\ calcRet - calcArgs.timestamp >= 1

\* today's target has passed and tomorrow's is exactly 10 seconds ahead
C18_Witness ==
    /\ CalcDone
    /\ TargetOn(0) < calcArgs.timestamp
    /\ calcRet = calcArgs.timestamp + 10

\* C19: in weekday-mask mode the weekday of the result is in the mask and its
\* time of day is the target, on the fallback path too.
C19_ResultOnMaskDay ==
    (CalcDone /\ calcArgs.weekdayMask # 0) =>
        /\ BitSet(calcArgs.weekdayMask, WeekdayOf(calcRet \div DAY))
        /\ calcRet % DAY = CalcTargetTod

\* several bits set, a later day rejected by the guard, and the fallback taken
\* from the renormalised date
C19_Witness ==
    /\ CalcDone
    /\ calcArgs.weekdayMask # 0
    /\ calcArgs.weekdayMask \notin SingleBitMasks
    /\ ~BitSet(calcArgs.weekdayMask, WeekdayOf(CalcToday))
    /\ calcRet = TargetOn(8)

\* C20: in weekday-mask mode and in interval mode with restartDays > 1 the
\* result is more than 10 seconds after now; a result less than 10 seconds
\* ahead occurs only in interval mode with restartDays = 1.
C20_NearMissOnlyDailyInterval ==
    CalcDone =>
        /\ (calcArgs.weekdayMask # 0 \/ calcArgs.restartDays > 1) =>
              calcRet - calcArgs.timestamp > 10
        /\ calcRet - calcArgs.timestamp < 10 =>
              (calcArgs.weekdayMask = 0 /\ calcArgs.restartDays = 1)

\* the near miss itself: daily interval, result 5 seconds ahead
C20_Witness ==
    /\ CalcDone
    /\ calcArgs.weekdayMask = 0
    /\ calcArgs.restartDays = 1
    /\ calcRet - calcArgs.timestamp = 5

(***************************************************************************)
(* Further properties of Init and OnUpdate, checked under Spec.            *)
(***************************************************************************)
\* the step is a call of Init / of OnUpdate
InitStep == initCount' = initCount + 1
TickStep == tickCount' = tickCount + 1

\* C11: every Init call clears a host shutdown requested by a prior cycle:
\* when an Init call returns, no host countdown is running.
C11_InitCancelsHostShutdown ==
    [][InitStep => ~shutdownTimer'.active]_vars

\* the configuration errors of the option table: the time is not three numeric
\* components, the mask is above 127, the interval is outside 1..365, or a
\* time component is out of range
ConfigError(cfg) ==
    \/ Len(cfg.configTime) # 3
    \/ \E i \in 1 .. Len(cfg.configTime) : ~cfg.configTime[i].numeric
    \/ cfg.weekdayMask > 127
    \/ cfg.restartDays < 1
    \/ cfg.restartDays > 365
    \/ /\ Len(cfg.configTime) = 3
       /\ \/ cfg.configTime[1].value > 23
          \/ cfg.configTime[2].value > 59
          \/ cfg.configTime[3].value > 59

\* C12: an Init call that sees a configuration error leaves the module
\* disabled, enqueues no task and issues no host request; while the latest Init
\* call was such a call, an OnUpdate call fires nothing.
C12_ConfigErrorDisables ==
    [][/\ (InitStep /\ ConfigError(last'.cfg)) =>
            /\ ~isEnableModule'
            /\ tasks' = tasks
            /\ shutdownTimer' = shutdownTimer
            /\ log' = log
       /\ (TickStep /\ initCount > 0 /\ ConfigError(last.cfg)) =>
            /\ tasks' = tasks
            /\ shutdownTimer' = shutdownTimer
            /\ log' = log]_vars

\* a task left over from an earlier cycle has come due by the wall clock after
\* a reload with a configuration error, an OnUpdate call was made, and nothing
\* has fired
C12_Witness ==
    /\ ConfigError(last.cfg)
    /\ ~isEnableModule
    /\ tickCount > last.tick
    /\ \E t \in tasks : t.fireAt <= now
    /\ log = <<>>

\* the latest Init call has just returned, and it scheduled the announce with
\* the given lead under the clamping rule: delay 1 and duration secondsToShutdown
\* when the shutdown is less than `lead` away, delay secondsToShutdown - lead
\* and duration `lead` otherwise
ScheduledWithLead(lead) ==
    /\ last.ok
    /\ isEnableModule
    /\ \E t \in tasks :
         /\ t.gen = initCount
         /\ IF last.diffToShutdown < lead
            THEN t.end = schedNow + 1 /\ t.preAnnounceSeconds = last.diffToShutdown
            ELSE /\ t.end = schedNow + (last.diffToShutdown - lead)
                 /\ t.preAnnounceSeconds = lead

\* C13: a configured lead above 86400 is no configuration error: Init keeps
\* the module enabled and schedules the announce with lead 3600 (subject to the
\* clamping rule); a lead of exactly 86400 is used unchanged.
C13_LeadAboveDayReplaced ==
    (initCount > 0 /\ last.tick = tickCount /\ last.cfg.enabled /\ ~ConfigError(last.cfg)) =>
        /\ last.cfg.preAnnounceSeconds > DAY => ScheduledWithLead(HOUR)
        /\ last.cfg.preAnnounceSeconds = DAY => ScheduledWithLead(DAY)

\* an earlier cycle configured with lead 86400 has fired with 86400 seconds of
\* grace, and the latest Init call, configured with more than 86400, has
\* scheduled its announce with duration 3600
C13_Witness ==
    /\ \E i \in 1 .. Len(log) : log[i].kind = "shutdown" /\ log[i].secs = DAY
    /\ last.tick = tickCount
    /\ last.cfg.preAnnounceSeconds > DAY
    /\ ScheduledWithLead(HOUR)
    /\ \E t \in tasks : t.gen = initCount /\ t.preAnnounceSeconds = HOUR

\* positions of the host shutdown requests in the log
ShutdownEvents == {i \in 1 .. Len(log) : log[i].kind = "shutdown"}
BroadcastEvents == {i \in 1 .. Len(log) : log[i].kind = "broadcast"}

\* C14: within one schedule cycle the host shutdown request is issued at most
\* once; each request is immediately preceded, in the same task action, by
\* exactly one broadcast carrying the same number of seconds, which is the
\* effective lead of the cycle, and the request's category is restart.
C14_OneRequestPerCycle ==
    /\ \A i \in ShutdownEvents : \A j \in ShutdownEvents :
          log[i].gen = log[j].gen => i = j
    /\ \A i \in ShutdownEvents :
          /\ i - 1 \in BroadcastEvents
          /\ i - 2 \notin BroadcastEvents
          /\ log[i - 1].secs = log[i].secs
          /\ log[i - 1].gen = log[i].gen
          /\ log[i - 1].cur = log[i].cur
    /\ \A i \in BroadcastEvents : i + 1 \in ShutdownEvents
    /\ \A i \in ShutdownEvents :
          (log[i].gen = initCount /\ last.ok) => log[i].secs = last.preAnnounceSeconds
    /\ shutdownTimer.active =>
          /\ shutdownTimer.options = "SHUTDOWN_MASK_RESTART"
          /\ \E i \in ShutdownEvents :
                log[i].gen = shutdownTimer.gen /\ log[i].secs = shutdownTimer.time

\* a cycle whose task fired on the first of two OnUpdate calls, and not again
\* on the second
C14_Witness ==
    /\ last.ok
    /\ last.tick = 0
    /\ tickCount >= 2
    /\ ShutdownEvents = {2}
    /\ log[2].gen = initCount
    /\ shutdownTimer.active
    /\ schedNow >= 2 * HOUR

\* C16: the announce never fires early and never inside Init: a broadcast or
\* shutdown request only occurs in an OnUpdate call, belongs to the cycle of the
\* latest Init call, which succeeded with delay d, and occurs only when the time
\* passed to OnUpdate since that Init call (all of it with the module enabled)
\* has reached d.
C16_AnnounceNotEarly ==
    [][log' # log =>
        /\ TickStep
        /\ ~InitStep
        /\ isEnableModule
        /\ last.ok
        /\ \A i \in (Len(log) + 1) .. Len(log') : log'[i].gen = initCount
        /\ schedNow' - schedNow = now' - now
        /\ now' - last.nowTime >= last.diffToPreAnnounce]_vars

\* a cycle scheduled with a delay of one hour has fired after OnUpdate calls of
\* one second and one hour
C16_Witness ==
    /\ last.ok
    /\ last.diffToPreAnnounce = HOUR
    /\ tickCount = last.tick + 2
    /\ now = last.nowTime + HOUR + 1
    /\ \E i \in ShutdownEvents : log[i].gen = initCount
    /\ tasks = {}

\* Init has returned with delay 0 and nothing has fired
C16_ZeroDelayPending ==
    /\ last.ok
    /\ last.diffToPreAnnounce = 0
    /\ last.tick = tickCount
    /\ log = <<>>
    /\ tasks # {}

(***************************************************************************)
(* Liveness, checked under SpecLive.                                       *)
(***************************************************************************)
\* the task of cycle g has fired: broadcast sent, host shutdown requested
Fired(g) ==
    \E i \in ShutdownEvents :
        /\ log[i].gen = g
        /\ i - 1 \in BroadcastEvents
        /\ log[i - 1].gen = g

\* C17: after a successful Init call, while OnUpdate keeps being called with
\* positive elapsed time, either a further Init call occurs or eventually the
\* announce task has fired (broadcast sent, host shutdown requested) and the
\* scheduler's pending set is empty.
C17_AnnounceEventuallyFires ==
    \A g \in 1 .. MaxInits :
        (last.ok /\ initCount = g) ~> (initCount > g \/ (Fired(g) /\ tasks = {}))

\* the task of the latest cycle fired after a wait of several OnUpdate calls
C17_Witness ==
    /\ last.ok
    /\ last.diffToPreAnnounce >= 3 * HOUR
    /\ tickCount >= last.tick + 3
    /\ Fired(initCount)
    /\ tasks = {}
    /\ shutdownTimer.active

====
